---- MODULE Spec2Model ----
(***************************************************************************)
(* State-machine model of the Litemint auction contract                    *)
(* (src/blockchain/payment.rs) and of the administrative part of the       *)
(* royalty contract (src/blockchain/payementverification.rs).              *)
(*                                                                         *)
(* Every public entry point is one action.  A Soroban invocation is one    *)
(* atomic ledger transaction: a panic (failed assert!, unwrap() of None,   *)
(* failed require_auth) aborts it and the host discards every storage      *)
(* write made so far.  Each entry point is therefore an operator from the  *)
(* storage before the call and the arguments to an outcome record          *)
(*   [ok, ret, st, asked, seen]                                            *)
(* where st is the storage the transaction leaves behind.                  *)
(*                                                                         *)
(* Option<T> is modelled as a sequence: << >> is None, <<x>> is Some(x).   *)
(* The modules `auctions` and `types` of the repository are not part of    *)
(* the source tree; the behaviour of the two auction variants is modelled  *)
(* from spec.md sections 3 and 4 (definitions named Variant...).           *)
(***************************************************************************)
EXTENDS Integers, Sequences, FiniteSets, TLC

\* ---------------------------------------------------------------- bounds
MaxId == 1            \* auction identifiers drawn by the prng: 1..MaxId
MaxTime == 1          \* ledger timestamps 0..MaxTime
MaxAmount == 2        \* bid amounts 1..MaxAmount
MaxBids == 2          \* accepted plain bids kept per auction
MaxSealed == 2        \* sealed commitments kept per auction
MaxDuration == 2      \* cap on settings.duration
MaxSealedTime == 1    \* settings.sealed_phase_time in 0..MaxSealedTime
MaxPeriod == 2        \* terms.recur_period and terms.grace_period in 0..MaxPeriod
MaxBalance == 2       \* token balances of the licensor in 0..MaxBalance

\* ------------------------------------------------------ program constants
AntiSnipeCap == 60
CommissionCap == 100

\* ----------------------------------------------------------- value sets
Ids == 1..MaxId
Amounts == 1..MaxAmount
Salts == {1, 2}
Admins == {"admin"}
Sellers == {"seller"}
Buyers == {"b1", "b2"}
Nobody == "nobody"
Signers == Sellers \cup Buyers \cup {Nobody}

\* Principals and addresses of the royalty contract.
Brokers == {"br1", "br2"}
Subscribers == {"sub"}
Topics == {"topic"}
Licensors == {"licensor"}
Contract == "contract"
Properties == {"property"}
Liens == {"lien"}
TokenContracts == Properties \cup Liens
Holders == Licensors \cup {Contract}
RSigners == Admins \cup Brokers \cup Subscribers \cup Licensors \cup {Nobody}

\* Arguments of initialize: in range, above range, below range.
InitArgs == {<<10, 5, TRUE>>, <<61, 101, FALSE>>, <<0, -1, TRUE>>}

None == << >>
Some(x) == <<x>>
IsSome(o) == Len(o) > 0
Unwrap(o) == o[1]

Min(a, b) == IF a <= b THEN a ELSE b
Max(a, b) == IF a >= b THEN a ELSE b

VARIABLES
    admin,        \* DataKey::AdminData : Option<AdminData>
    auctions,     \* DataKey::AuctionData(id) : Option<AuctionData>
    phase,        \* fsm state of AuctionRegion::Dispatcher(id); "None" = no record
    transfers,    \* settlements (rounds of transfer calls) issued for the
                  \* auction currently stored under each identifier
    now,          \* env.ledger().timestamp()
    r_admin,      \* royalty contract, AdminDataKey::Root : Option<AdminData>
    last,         \* the last invocation: operation, auction id, completed or aborted
    whitelist,    \* royalty contract, DataKey::BrokerWhitelist(broker) : Option<bool>
    market,       \* royalty contract, MarketDataKey::Index(topic) : Option<MarketData>
    licenses,     \* royalty contract, DataKey::License(property) : Option<License>
    tokens,       \* balances held in the token contracts (property, lien)
    r_last        \* the last invocation of the royalty contract

\* The variables only the royalty contract's operations change.
rvars == <<whitelist, market, licenses, tokens, r_last>>

vars == <<admin, auctions, phase, transfers, now, r_admin, last,
          whitelist, market, licenses, tokens, r_last>>

\* The storage a transaction of the auction contract works on.
Storage == [admin |-> admin, auctions |-> auctions, phase |-> phase,
            transfers |-> transfers]

Outcome(ok, ret, st, asked, seen) ==
    [ok |-> ok, ret |-> ret, st |-> st, asked |-> asked, seen |-> seen]

\* A panic: the host rolls the storage back to st0.
Abort(st0, asked, seen) == Outcome(FALSE, None, st0, asked, seen)

\* ------------------------------------------------------------ initialize
\* The admin record built from the arguments as passed, without clamping.
AdminData_unclamped(a, anti_snipe_time, commission_rate, extendable_auctions) ==
    [admin |-> a,
     anti_snipe_time |-> anti_snipe_time,
     commission_rate |-> commission_rate,
     extendable_auctions |-> extendable_auctions]

AdminData(a, anti_snipe_time, commission_rate, extendable_auctions) ==
    [admin |-> a,
     anti_snipe_time |-> Min(anti_snipe_time, AntiSnipeCap),
     commission_rate |-> Min(Max(commission_rate, 0), CommissionCap),
     extendable_auctions |-> extendable_auctions]

\* Mutant of initialize: the existence check is missing.
initialize_overwrites(st, a, anti_snipe_time, commission_rate, extendable_auctions) ==
    Outcome(TRUE, None,
            [st EXCEPT !.admin = Some(AdminData(a, anti_snipe_time,
                                 commission_rate, extendable_auctions))],
            FALSE, "")

initialize(st, a, anti_snipe_time, commission_rate, extendable_auctions) ==
    IF IsSome(st.admin)
    THEN Abort(st, FALSE, "")
    ELSE Outcome(TRUE, None,
                 [st EXCEPT !.admin = Some(AdminData(a, anti_snipe_time,
                                      commission_rate, extendable_auctions))],
                 FALSE, "")

\* ------------------------------------------------------- auction records
Settings(seller, starting_price, duration, sealed_phase_time, discount_percent, discount_frequency) ==
    [seller |-> seller, starting_price |-> starting_price,
     duration |-> duration, sealed_phase_time |-> sealed_phase_time,
     discount_percent |-> discount_percent,
     discount_frequency |-> discount_frequency]

\* AuctionData::new(settings, start_time, bids, sealed_bids, id)
AuctionData(settings, start_time, bids, sealed_bids, id) ==
    [settings |-> settings, start_time |-> start_time, bids |-> bids,
     sealed_bids |-> sealed_bids, id |-> id]

\* The argument of dispatcher!(..): TRUE selects the discount (Dutch) variant.
IsDiscount(settings) ==
    settings.discount_percent > 0 /\ settings.discount_frequency > 0

\* ----------------------------------------- auction variants (from spec.md)
VOut(ok, st) == [ok |-> ok, st |-> st]

\* The commitment binding an amount and a salt: a collision-free hash.
Commitment(amount, salt) == amount * 16 + salt

\* Absence of a phase record means the auction is implicitly Running.
EffectivePhase(st, id) ==
    IF st.phase[id] = "None" THEN "Running" ELSE st.phase[id]

VariantIsSealedBidAuction(a) == a.settings.sealed_phase_time > 0

\* start: store the record; a sealed-bid auction starts in phase Sealed, any
\* other auction gets no phase record.
VariantStart(st, id, a) ==
    VOut(TRUE,
         [st EXCEPT !.auctions[id] = Some(a),
                    !.phase[id] = IF VariantIsSealedBidAuction(a)
                                  THEN "Sealed" ELSE @,
                    !.transfers[id] = 0])

\* Highest accepted plain bid, or starting_price when there is none.
HighestBid(a) ==
    IF a.bids = << >> THEN a.settings.starting_price
    ELSE CHOOSE m \in {a.bids[k].amount : k \in 1..Len(a.bids)} :
             \A k \in 1..Len(a.bids) : a.bids[k].amount <= m

\* Discount variant: starting_price reduced by discount_percent for every
\* elapsed interval of discount_frequency since the start, floored at 0.
DiscountPrice(a, t) ==
    LET n == (t - a.start_time) \div a.settings.discount_frequency
        cut == (a.settings.starting_price * a.settings.discount_percent * n) \div 100
    IN  Max(a.settings.starting_price - cut, 0)

\* Index of the first unconsumed commitment of buyer equal to c, 0 if none.
FindCommitment(a, buyer, c) ==
    LET hits == {k \in 1..Len(a.sealed_bids) :
                    /\ a.sealed_bids[k].buyer = buyer
                    /\ a.sealed_bids[k].sealed_amount = c}
    IN  IF hits = {} THEN 0 ELSE CHOOSE k \in hits : \A j \in hits : k <= j

RemoveAt(s, k) == [j \in 1..(Len(s) - 1) |-> IF j < k THEN s[j] ELSE s[j + 1]]

\* The Ascending price rule accepting a bid equal to the current highest.
VariantPlaceBid_ties(st, id, buyer, amount, salt, t) ==
    LET a == Unwrap(st.auctions[id])
        sealed == VariantIsSealedBidAuction(a)
        k == IF sealed /\ IsSome(salt)
             THEN FindCommitment(a, buyer, Commitment(amount, Unwrap(salt)))
             ELSE 0
        a1 == IF sealed THEN [a EXCEPT !.sealed_bids = RemoveAt(@, k)] ELSE a
        bid == [buyer |-> buyer, amount |-> amount, timestamp |-> t]
        a2 == [a1 EXCEPT !.bids = Append(@, bid)]
    IN  IF EffectivePhase(st, id) # "Running" THEN VOut(FALSE, st)
        ELSE IF sealed /\ k = 0 THEN VOut(FALSE, st)
        ELSE IF IsDiscount(a.settings)
        THEN IF amount >= DiscountPrice(a, t)
             THEN VOut(TRUE, [st EXCEPT !.auctions[id] = Some(a2),
                                        !.phase[id] = "Ended",
                                        !.transfers[id] = @ + 1])
             ELSE VOut(FALSE, st)
        ELSE IF amount >= HighestBid(a)
             THEN VOut(TRUE, [st EXCEPT !.auctions[id] = Some(a2)])
             ELSE VOut(FALSE, st)

\* place_bid of a variant: phase gate, reveal (sealed-bid auctions), price rule.
VariantPlaceBid(st, id, buyer, amount, salt, t) ==
    LET a == Unwrap(st.auctions[id])
        sealed == VariantIsSealedBidAuction(a)
        k == IF sealed /\ IsSome(salt)
             THEN FindCommitment(a, buyer, Commitment(amount, Unwrap(salt)))
             ELSE 0
        a1 == IF sealed THEN [a EXCEPT !.sealed_bids = RemoveAt(@, k)] ELSE a
        bid == [buyer |-> buyer, amount |-> amount, timestamp |-> t]
        a2 == [a1 EXCEPT !.bids = Append(@, bid)]
    IN  IF EffectivePhase(st, id) # "Running" THEN VOut(FALSE, st)
        ELSE IF sealed /\ k = 0 THEN VOut(FALSE, st)
        ELSE IF IsDiscount(a.settings)
        THEN IF amount >= DiscountPrice(a, t)
             THEN VOut(TRUE, [st EXCEPT !.auctions[id] = Some(a2),
                                        !.phase[id] = "Ended",
                                        !.transfers[id] = @ + 1])
             ELSE VOut(FALSE, st)
        ELSE IF amount > HighestBid(a)
             THEN VOut(TRUE, [st EXCEPT !.auctions[id] = Some(a2)])
             ELSE VOut(FALSE, st)

\* place_sealed_bid of a variant: only valid while the phase is Sealed.
VariantPlaceSealedBid(st, id, buyer, sealed_amount) ==
    LET a == Unwrap(st.auctions[id])
        c == [buyer |-> buyer, sealed_amount |-> sealed_amount]
    IN  IF st.phase[id] = "Sealed"
        THEN VOut(TRUE, [st EXCEPT !.auctions[id] =
                             Some([a EXCEPT !.sealed_bids = Append(@, c)])])
        ELSE VOut(FALSE, st)

\* resolve of a variant: fails on an auction that has already ended, otherwise
\* the phase becomes Ended; transfers only if there is a winner.
VariantResolve(st, id) ==
    LET a == Unwrap(st.auctions[id])
    IN  IF EffectivePhase(st, id) = "Ended" THEN VOut(FALSE, st)
        ELSE VOut(TRUE, [st EXCEPT !.phase[id] = "Ended",
                                   !.transfers[id] =
                                       IF a.bids = << >> THEN @ ELSE @ + 1])

\* --------------------------------------------------------- entry points
\* resolve returning without handing the auction to its variant.
resolve_skips_variant(st, id) ==
    IF ~IsSome(st.auctions[id]) THEN Abort(st, FALSE, "")
    ELSE Outcome(TRUE, None, st, FALSE, "")

resolve(st, id) ==
    IF ~IsSome(st.auctions[id]) THEN Abort(st, FALSE, "")
    ELSE LET v == VariantResolve(st, id)
         IN  IF v.ok THEN Outcome(TRUE, None, v.st, FALSE, "")
             ELSE Abort(st, FALSE, "")

\* Mutant of has_sealed_phase_expired: the boundary instant is excluded.
has_sealed_phase_expired_strict(t, a) ==
    a.start_time + a.settings.sealed_phase_time < t

\* The closure of place_bid in a non-test build (under cfg(test) it is
\* constantly true).
has_sealed_phase_expired(t, a) ==
    a.start_time + a.settings.sealed_phase_time <= t

\* The storage place_bid hands to the variant: a sealed-bid auction whose
\* sealed phase has expired gets the phase record Running.
AdvancePhase(st, id, t) ==
    LET a == Unwrap(st.auctions[id])
    IN  IF VariantIsSealedBidAuction(a) /\ has_sealed_phase_expired(t, a)
        THEN [st EXCEPT !.phase[id] = "Running"]
        ELSE st

\* Mutant of place_bid: buyer.require_auth() is missing.
place_bid_unauthenticated(st, id, buyer, amount, salt, signer, t) ==
    IF ~IsSome(st.auctions[id]) THEN Abort(st, FALSE, "")
    ELSE LET st1 == AdvancePhase(st, id, t)
             v == VariantPlaceBid(st1, id, buyer, amount, salt, t)
         IN  IF v.ok THEN Outcome(TRUE, None, v.st, FALSE, st1.phase[id])
             ELSE Abort(st, FALSE, st1.phase[id])

\* Mutant of place_bid: a rejection by the variant is swallowed instead of
\* aborting the transaction, so the phase record written before it persists.
place_bid_partial(st, id, buyer, amount, salt, signer, t) ==
    IF signer # buyer THEN Abort(st, TRUE, "")
    ELSE IF ~IsSome(st.auctions[id]) THEN Abort(st, TRUE, "")
    ELSE LET st1 == AdvancePhase(st, id, t)
             v == VariantPlaceBid(st1, id, buyer, amount, salt, t)
         IN  IF v.ok THEN Outcome(TRUE, None, v.st, TRUE, st1.phase[id])
             ELSE Outcome(FALSE, None, st1, TRUE, st1.phase[id])

place_bid(st, id, buyer, amount, salt, signer, t) ==
    IF signer # buyer THEN Abort(st, TRUE, "")
    ELSE IF ~IsSome(st.auctions[id]) THEN Abort(st, TRUE, "")
    ELSE LET st1 == AdvancePhase(st, id, t)
             v == VariantPlaceBid(st1, id, buyer, amount, salt, t)
         IN  IF v.ok THEN Outcome(TRUE, None, v.st, TRUE, st1.phase[id])
             ELSE Abort(st, TRUE, st1.phase[id])

place_sealed_bid(st, id, buyer, sealed_amount, signer) ==
    IF signer # buyer THEN Abort(st, TRUE, "")
    ELSE IF ~IsSome(st.auctions[id]) THEN Abort(st, TRUE, "")
    ELSE LET v == VariantPlaceSealedBid(st, id, buyer, sealed_amount)
         IN  IF v.ok THEN Outcome(TRUE, None, v.st, TRUE, "")
             ELSE Abort(st, TRUE, "")

\* extend adding the duration to the discount frequency instead of the
\* auction duration.
extend_wrong_field(st, id, duration, signer) ==
    IF ~IsSome(st.admin) THEN Abort(st, FALSE, "")
    ELSE IF Unwrap(st.admin).extendable_auctions
    THEN Outcome(TRUE, Some(FALSE), st, FALSE, "")
    ELSE IF ~IsSome(st.auctions[id]) THEN Abort(st, FALSE, "")
    ELSE LET a == Unwrap(st.auctions[id])
         IN  IF signer # a.settings.seller THEN Abort(st, TRUE, "")
             ELSE Outcome(TRUE, Some(TRUE),
                          [st EXCEPT !.auctions[id] =
                              Some([a EXCEPT !.settings.discount_frequency = @ + duration])],
                          TRUE, "")

\* extend pushing the sealed-phase deadline back together with the duration.
extend_moves_deadline(st, id, duration, signer) ==
    IF ~IsSome(st.admin) THEN Abort(st, FALSE, "")
    ELSE IF Unwrap(st.admin).extendable_auctions
    THEN Outcome(TRUE, Some(FALSE), st, FALSE, "")
    ELSE IF ~IsSome(st.auctions[id]) THEN Abort(st, FALSE, "")
    ELSE LET a == Unwrap(st.auctions[id])
         IN  IF signer # a.settings.seller THEN Abort(st, TRUE, "")
             ELSE Outcome(TRUE, Some(TRUE),
                          [st EXCEPT !.auctions[id] =
                              Some([a EXCEPT !.settings.duration = @ + duration,
                                             !.settings.sealed_phase_time = @ + duration])],
                          TRUE, "")

\* The branch is taken on the flag as the source tests it, without negation:
\* extendable_auctions = TRUE returns false, FALSE extends. The addition is
\* kept below MaxDuration by the guard of Extend (u64 in the source).
extend(st, id, duration, signer) ==
    IF ~IsSome(st.admin) THEN Abort(st, FALSE, "")
    ELSE IF Unwrap(st.admin).extendable_auctions
    THEN Outcome(TRUE, Some(FALSE), st, FALSE, "")
    ELSE IF ~IsSome(st.auctions[id]) THEN Abort(st, FALSE, "")
    ELSE LET a == Unwrap(st.auctions[id])
         IN  IF signer # a.settings.seller THEN Abort(st, TRUE, "")
             ELSE Outcome(TRUE, Some(TRUE),
                          [st EXCEPT !.auctions[id] =
                              Some([a EXCEPT !.settings.duration = @ + duration])],
                          TRUE, "")

\* Mutant of start: the assertion that an admin record exists is missing.
start_unchecked(st, auction_settings, id, signer, t) ==
    IF signer # auction_settings.seller THEN Abort(st, TRUE, "")
    ELSE LET a == AuctionData(auction_settings, t, << >>, << >>, id)
             v == VariantStart(st, id, a)
         IN  Outcome(TRUE, Some(id), v.st, TRUE, "")

start(st, auction_settings, id, signer, t) ==
    IF ~IsSome(st.admin) THEN Abort(st, FALSE, "")
    ELSE IF signer # auction_settings.seller THEN Abort(st, TRUE, "")
    ELSE LET a == AuctionData(auction_settings, t, << >>, << >>, id)
             v == VariantStart(st, id, a)
         IN  IF v.ok THEN Outcome(TRUE, Some(id), v.st, TRUE, "")
             ELSE Abort(st, TRUE, "")

\* ------------------------------------------------- royalty contract admin
r_initialize(ra, a, commission_rate) ==
    IF IsSome(ra) THEN [ok |-> FALSE, admin |-> ra]
    ELSE [ok |-> TRUE,
          admin |-> Some([admin |-> a, commission_rate |-> commission_rate])]

\* ---------------------------------------------- royalty contract storage
\* The storage a transaction of the royalty contract works on.
RStorage ==
    [admin |-> r_admin, whitelist |-> whitelist, market |-> market,
     licenses |-> licenses, tokens |-> tokens]

\* What a royalty operation leaves behind: completed or aborted, and the
\* storage (token balances included) after it.
ROut(ok, st) == [ok |-> ok, st |-> st]

\* A panic: the host rolls everything back to st0.
RAbort(st0) == ROut(FALSE, st0)

\* --------------------------------------------------------- token contracts
\* token::Client::balance and token::Client::transfer of the token contract
\* at address k; a transfer of more than the sender holds panics.
balance(tk, k, owner) == tk[k][owner]

transfer(tk, k, from, to, amount) ==
    IF tk[k][from] < amount THEN [ok |-> FALSE, tokens |-> tk]
    ELSE [ok |-> TRUE,
          tokens |-> [tk EXCEPT ![k][from] = @ - amount, ![k][to] = @ + amount]]

\* ------------------------------------------------------- broker whitelist
update_broker_whitelist(st, broker, remove) ==
    IF remove THEN [st EXCEPT !.whitelist[broker] = None]
    ELSE [st EXCEPT !.whitelist[broker] = Some(TRUE)]

\* The whitelist lookup answering for an absent entry instead of panicking.
require_broker_whitelisted_or_false(st, broker) ==
    IF IsSome(st.whitelist[broker])
    THEN [ok |-> TRUE, value |-> Unwrap(st.whitelist[broker])]
    ELSE [ok |-> TRUE, value |-> FALSE]

\* get(BrokerWhitelist(broker)).unwrap(): panics (ok = FALSE) when the entry
\* is absent, otherwise returns the stored boolean.
require_broker_whitelisted(st, broker) ==
    IF IsSome(st.whitelist[broker])
    THEN [ok |-> TRUE, value |-> Unwrap(st.whitelist[broker])]
    ELSE [ok |-> FALSE, value |-> FALSE]

MarketData(price, asset) == [price |-> price, asset |-> asset]

reconcile_data(data) == data

\* The hooks discard the boolean require_broker_whitelisted returns.
on_request(st, broker, subscriber, signer) ==
    IF ~require_broker_whitelisted(st, broker).ok THEN RAbort(st)
    ELSE IF signer # subscriber THEN RAbort(st)
    ELSE ROut(TRUE, st)

on_sync_receive(st, topic, broker, data) ==
    IF ~require_broker_whitelisted(st, broker).ok THEN RAbort(st)
    ELSE ROut(TRUE, [st EXCEPT !.market[topic] = Some(reconcile_data(data))])

on_async_receive(st, topic, broker, data, signer) ==
    IF ~require_broker_whitelisted(st, broker).ok THEN RAbort(st)
    ELSE IF signer # broker THEN RAbort(st)
    ELSE ROut(TRUE, [st EXCEPT !.market[topic] = Some(reconcile_data(data))])

allow_broker(st, broker, signer) ==
    IF ~IsSome(st.admin) THEN RAbort(st)
    ELSE IF signer # Unwrap(st.admin).admin THEN RAbort(st)
    ELSE ROut(TRUE, update_broker_whitelist(st, broker, FALSE))

deny_broker(st, broker, signer) ==
    IF ~IsSome(st.admin) THEN RAbort(st)
    ELSE IF signer # Unwrap(st.admin).admin THEN RAbort(st)
    ELSE ROut(TRUE, update_broker_whitelist(st, broker, TRUE))

\* ------------------------------------------------------------ add_property
\* The fields of Terms that add_property reads.
Terms(licensor, property, lien, recur_period, grace_period) ==
    [licensor |-> licensor, property |-> property, lien |-> lien,
     recur_period |-> recur_period, grace_period |-> grace_period]

\* License::new, its arguments in the order of the call; the last two are
\* LicenseStatus::Paid and false.
License(terms, licensee, created_time, recur_time, grace_time, status, flag) ==
    [terms |-> terms, licensee |-> licensee, created_time |-> created_time,
     recur_time |-> recur_time, grace_time |-> grace_time,
     status |-> status, flag |-> flag]

\* add_property accepting a recurrence period equal to the grace period.
add_property_lax(st, terms, signer, t) ==
    IF signer # terms.licensor THEN RAbort(st)
    ELSE IF ~(terms.recur_period >= terms.grace_period \/ terms.recur_period = 0)
    THEN RAbort(st)
    ELSE IF IsSome(st.licenses[terms.property]) THEN RAbort(st)
    ELSE IF balance(st.tokens, terms.property, terms.licensor) # 1 THEN RAbort(st)
    ELSE LET tr == transfer(st.tokens, terms.lien, terms.licensor, Contract, 1)
             recur_time == IF terms.recur_period > 0
                           THEN t + terms.recur_period ELSE 0
             grace_time == t + terms.grace_period
             license == License(terms, terms.licensor, t, recur_time,
                                grace_time, "Paid", FALSE)
         IN  IF ~tr.ok THEN RAbort(st)
             ELSE ROut(TRUE, [st EXCEPT !.tokens = tr.tokens,
                                        !.licenses[terms.property] = Some(license)])

add_property(st, terms, signer, t) ==
    IF signer # terms.licensor THEN RAbort(st)
    ELSE IF ~(terms.recur_period > terms.grace_period \/ terms.recur_period = 0)
    THEN RAbort(st)
    ELSE IF IsSome(st.licenses[terms.property]) THEN RAbort(st)
    ELSE IF balance(st.tokens, terms.property, terms.licensor) # 1 THEN RAbort(st)
    ELSE LET tr == transfer(st.tokens, terms.lien, terms.licensor, Contract, 1)
             recur_time == IF terms.recur_period > 0
                           THEN t + terms.recur_period ELSE 0
             grace_time == t + terms.grace_period
             license == License(terms, terms.licensor, t, recur_time,
                                grace_time, "Paid", FALSE)
         IN  IF ~tr.ok THEN RAbort(st)
             ELSE ROut(TRUE, [st EXCEPT !.tokens = tr.tokens,
                                        !.licenses[terms.property] = Some(license)])

\* ------------------------------------------------------------------ Init
\* The record of an invocation of the royalty contract: the operation, the
\* broker it names (Nobody if none), whether it completed or aborted,
\* and whether the principal the operation authenticates had signed.
RCall(op, broker, ok, authed) ==
    [op |-> op, broker |-> broker, ok |-> ok, authed |-> authed]

\* The record of an invocation: the operation, the auction id it names, whether
\* it completed (ok) or aborted, the boolean it returned (extend; the identifier
\* start returns is id), and whether the principal the operation authenticates
\* had signed the transaction.
Call(op, id, ok, ret, authed) ==
    [op |-> op, id |-> id, ok |-> ok, ret |-> ret, authed |-> authed]

Init ==
    /\ admin = None
    /\ auctions = [i \in Ids |-> None]
    /\ phase = [i \in Ids |-> "None"]
    /\ transfers = [i \in Ids |-> 0]
    /\ now = 0
    /\ r_admin = None
    /\ last = Call("none", 0, TRUE, None, TRUE)
    /\ whitelist = [b \in Brokers |-> None]
    /\ market = [t \in Topics |-> None]
    /\ licenses = [p \in Properties |-> None]
    /\ tokens = [k \in TokenContracts |-> [h \in Holders |-> 0]]
    /\ r_last = RCall("none", Nobody, TRUE, TRUE)

\* Commit an outcome of the auction contract and record the invocation.
Apply(op, id, out, authed) ==
    /\ admin' = out.st.admin
    /\ auctions' = out.st.auctions
    /\ phase' = out.st.phase
    /\ transfers' = out.st.transfers
    /\ last' = Call(op, id, out.ok,
                     IF op = "extend" THEN out.ret ELSE None, authed)
    /\ UNCHANGED <<now, r_admin>>
    /\ UNCHANGED rvars

Initialize ==
    \E a \in Admins, x \in InitArgs :
        Apply("initialize", 0, initialize(Storage, a, x[1], x[2], x[3]), TRUE)

\* Settings passed to start: both variants, with and without a sealed phase,
\* and settings with only one of the two discount fields set.
AllSettings ==
    {Settings(s, x[1], 1, z, x[2], x[3]) :
        s \in Sellers, z \in 0..MaxSealedTime,
        x \in {<<0, 0, 0>>, <<2, 50, 1>>, <<0, 50, 0>>}}

\* The optional salt of place_bid, and the extra duration of extend.
SaltArgs == {None} \cup {Some(s) : s \in Salts}
DurationArgs == 0..1

\* Commitments submitted to place_sealed_bid (all made with the first salt).
SealedAmounts == {Commitment(a, 1) : a \in Amounts}

Start ==
    \E x \in AllSettings, id \in Ids, signer \in Signers :
        Apply("start", id, start(Storage, x, id, signer, now),
              signer = x.seller)

PlaceBid ==
    \E id \in Ids, b \in Buyers, amount \in Amounts,
       salt \in SaltArgs, signer \in Signers :
        /\ IsSome(auctions[id]) => Len(Unwrap(auctions[id]).bids) < MaxBids
        /\ Apply("place_bid", id,
                 place_bid(Storage, id, b, amount, salt, signer, now),
                 signer = b)

PlaceSealedBid ==
    \E id \in Ids, b \in Buyers, c \in SealedAmounts, signer \in Signers :
        /\ IsSome(auctions[id]) =>
               Len(Unwrap(auctions[id]).sealed_bids) < MaxSealed
        /\ Apply("place_sealed_bid", id,
                 place_sealed_bid(Storage, id, b, c, signer), signer = b)

Extend ==
    \E id \in Ids, d \in DurationArgs, signer \in Signers :
        /\ IsSome(auctions[id]) =>
               Unwrap(auctions[id]).settings.duration + d <= MaxDuration
        /\ Apply("extend", id, extend(Storage, id, d, signer),
                 IsSome(auctions[id])
                     /\ signer = Unwrap(auctions[id]).settings.seller)

Resolve ==
    \E id \in Ids :
        Apply("resolve", id, resolve(Storage, id), TRUE)

RInitialize ==
    \E a \in Admins, c \in {5, 101} :
        LET out == r_initialize(r_admin, a, c)
        IN  /\ r_admin' = out.admin
            /\ last' = Call("r_initialize", 0, out.ok, None, TRUE)
            /\ UNCHANGED <<admin, auctions, phase, transfers, now>>
            /\ UNCHANGED rvars

Tick ==
    /\ now < MaxTime
    /\ now' = now + 1
    /\ last' = Call("tick", 0, TRUE, None, TRUE)
    /\ UNCHANGED <<admin, auctions, phase, transfers, r_admin>>
    /\ UNCHANGED rvars

Next ==
    \/ Initialize
    \/ Start
    \/ PlaceBid
    \/ PlaceSealedBid
    \/ Extend
    \/ Resolve
    \/ RInitialize
    \/ Tick

Spec == Init /\ [][Next]_vars

\* ------------------------------------------- royalty contract: operations
\* Commit an outcome of the royalty contract and record the invocation.
RApply(op, broker, out, authed) ==
    /\ r_admin' = out.st.admin
    /\ whitelist' = out.st.whitelist
    /\ market' = out.st.market
    /\ licenses' = out.st.licenses
    /\ tokens' = out.st.tokens
    /\ r_last' = RCall(op, broker, out.ok, authed)
    /\ UNCHANGED <<admin, auctions, phase, transfers, now, last>>

RoyaltyInitialize ==
    \E a \in Admins :
        LET out == r_initialize(r_admin, a, 5)
        IN  RApply("initialize", Nobody,
                   ROut(out.ok, [RStorage EXCEPT !.admin = out.admin]), TRUE)

AllowBroker ==
    \E b \in Brokers, signer \in RSigners :
        RApply("allow_broker", b, allow_broker(RStorage, b, signer),
               IsSome(r_admin) /\ signer = Unwrap(r_admin).admin)

DenyBroker ==
    \E b \in Brokers, signer \in RSigners :
        RApply("deny_broker", b, deny_broker(RStorage, b, signer),
               IsSome(r_admin) /\ signer = Unwrap(r_admin).admin)

MarketArgs == {MarketData(p, "asset") : p \in Amounts}

OnRequest ==
    \E b \in Brokers, sub \in Subscribers, signer \in RSigners :
        RApply("on_request", b, on_request(RStorage, b, sub, signer),
               signer = sub)

OnSyncReceive ==
    \E topic \in Topics, b \in Brokers, data \in MarketArgs :
        RApply("on_sync_receive", b,
               on_sync_receive(RStorage, topic, b, data), TRUE)

OnAsyncReceive ==
    \E topic \in Topics, b \in Brokers, data \in MarketArgs, signer \in RSigners :
        RApply("on_async_receive", b,
               on_async_receive(RStorage, topic, b, data, signer), signer = b)

TermsArgs ==
    {Terms(l, p, k, r, g) : l \in Licensors, p \in Properties, k \in Liens,
                            r \in 0..MaxPeriod, g \in 0..MaxPeriod}

AddProperty ==
    \E terms \in TermsArgs, signer \in RSigners :
        RApply("add_property", Nobody,
               add_property(RStorage, terms, signer, now),
               signer = terms.licensor)

\* Mints, burns and transfers in the token contracts by other parties change
\* what the licensor holds.
TokenActivity ==
    \E k \in TokenContracts, l \in Licensors, n \in 0..MaxBalance :
        /\ tokens' = [tokens EXCEPT ![k][l] = n]
        /\ r_last' = RCall("token", Nobody, TRUE, TRUE)
        /\ UNCHANGED <<admin, auctions, phase, transfers, now, last,
                       r_admin, whitelist, market, licenses>>

RoyaltyTick ==
    /\ now < MaxTime
    /\ now' = now + 1
    /\ r_last' = RCall("tick", Nobody, TRUE, TRUE)
    /\ UNCHANGED <<admin, auctions, phase, transfers, last,
                   r_admin, whitelist, market, licenses, tokens>>

RoyaltyNext ==
    \/ RoyaltyInitialize
    \/ AllowBroker
    \/ DenyBroker
    \/ OnRequest
    \/ OnSyncReceive
    \/ OnAsyncReceive
    \/ AddProperty
    \/ TokenActivity
    \/ RoyaltyTick

RoyaltySpec == Init /\ [][RoyaltyNext]_vars

\* ======================================================================
\* Properties
\* ======================================================================
StoredAuction(i) == Unwrap(auctions[i])
ExtensionEnabled == IsSome(admin) /\ Unwrap(admin).extendable_auctions
ExtensionDisabled == IsSome(admin) /\ ~Unwrap(admin).extendable_auctions
SealedDeadlinePassed(i) ==
    StoredAuction(i).start_time + StoredAuction(i).settings.sealed_phase_time <= now

\* C1: Ended is terminal. Once the phase record of an auction is Ended, no
\* operation on that auction (a start that re-creates the identifier aside)
\* leaves its phase record different from Ended.
C1_EndedIsTerminal ==
    [][\A i \in Ids :
          (phase[i] = "Ended" /\ ~(last'.op = "start" /\ last'.ok /\ last'.id = i))
              => phase'[i] = "Ended"]_vars

\* C2: settlement happens at most once per auction. A resolve issues transfer
\* calls only for an auction for which no transfers were issued before.
C2_SettlesOnce ==
    [][\A i \in Ids :
          (last'.op = "resolve" /\ last'.id = i /\ transfers'[i] > transfers[i])
              => transfers[i] = 0]_vars

\* C2 (first half): a resolve on an auction whose phase is Ended aborts and
\* issues no transfer call.
C2_ResolveOnEndedFails ==
    \A i \in Ids :
        (IsSome(auctions[i]) /\ phase[i] = "Ended")
            => LET o == resolve(Storage, i) IN ~o.ok /\ o.st = Storage

\* C3: initialize succeeds only when no admin record exists; once an admin
\* record is stored (in the auction contract or in the royalty contract), no
\* operation changes it, and an initialize that finds a record aborts.
C3_InitializeOnce ==
    [][/\ IsSome(admin) => admin' = admin
       /\ IsSome(r_admin) => r_admin' = r_admin
       /\ (last'.op = "initialize" /\ IsSome(admin)) => ~last'.ok
       /\ (last'.op = "r_initialize" /\ IsSome(r_admin)) => ~last'.ok]_vars

\* A second initialize of each contract has been attempted and rejected.
C3_Witness ==
    /\ last.op = "initialize" /\ ~last.ok
    /\ IsSome(admin) /\ IsSome(r_admin)

\* C4: with extendable_auctions disabled, extend on a stored auction returns
\* false and leaves the auction record unchanged, whoever signed.
C4_ExtendDisabledReturnsFalse ==
    [][(last'.op = "extend" /\ ExtensionDisabled /\ IsSome(auctions[last'.id]))
          => (last'.ret = Some(FALSE) /\ auctions' = auctions)]_vars

\* C5: with extendable_auctions enabled and the seller's signature,
\* extend(auction_id, d) returns true and the stored duration becomes the
\* previous duration plus d.
C5_ExtendEnabledAddsDuration ==
    \A i \in Ids, d \in DurationArgs :
        (ExtensionEnabled /\ IsSome(auctions[i]))
            => LET a == StoredAuction(i)
                   o == extend(Storage, i, d, a.settings.seller)
               IN  /\ o.ret = Some(TRUE)
                   /\ Unwrap(o.st.auctions[i]).settings.duration
                          = a.settings.duration + d

\* C6: in place_bid on an auction with a sealed phase, the variant sees the
\* phase record Running whenever start_time + sealed_phase_time <= now
\* (equality included), and sees the stored phase record, untouched, whenever
\* now is strictly smaller.
C6_PhaseAdvancedBeforeBid ==
    \A i \in Ids, b \in Buyers, amount \in Amounts, salt \in SaltArgs :
        (IsSome(auctions[i]) /\ StoredAuction(i).settings.sealed_phase_time > 0)
            => LET o == place_bid(Storage, i, b, amount, salt, b, now)
               IN  IF SealedDeadlinePassed(i)
                   THEN o.seen = "Running"
                   ELSE o.seen = phase[i]

\* A place_bid issued exactly at the sealed-phase boundary was accepted, with
\* the phase record Running.
C6_Witness ==
    /\ last.op = "place_bid" /\ last.ok
    /\ IsSome(auctions[last.id])
    /\ StoredAuction(last.id).settings.sealed_phase_time > 0
    /\ StoredAuction(last.id).start_time
           + StoredAuction(last.id).settings.sealed_phase_time = now
    /\ phase[last.id] = "Running"

\* C7: a place_sealed_bid on a sealed-bid auction at a ledger time
\* >= start_time + sealed_phase_time fails and appends no commitment.
C7_SealedBidOnlyInSealedPhase ==
    [][\A i \in Ids :
          (/\ last'.op = "place_sealed_bid" /\ last'.id = i
           /\ IsSome(auctions[i])
           /\ StoredAuction(i).settings.sealed_phase_time > 0
           /\ SealedDeadlinePassed(i))
              => (~last'.ok /\ auctions' = auctions)]_vars

\* C8: an operation that authenticates a principal who has not signed does not
\* succeed and writes nothing: place_bid and place_sealed_bid (buyer), start
\* and extend (seller) leave the admin, auction and phase records as they were.
C8_AuthIsAdmissionControl ==
    [][(last'.op \in {"place_bid", "place_sealed_bid", "start", "extend"}
            /\ ~last'.authed)
          => (/\ IF last'.op = "extend"
                 THEN ~last'.ok \/ last'.ret = Some(FALSE)
                 ELSE ~last'.ok
              /\ admin' = admin /\ auctions' = auctions
              /\ phase' = phase /\ transfers' = transfers)]_vars

\* A place_bid on a stored auction without the buyer's signature was rejected.
C8_Witness ==
    /\ last.op = "place_bid" /\ ~last.authed /\ ~last.ok
    /\ IsSome(auctions[last.id])

\* C9: a failing operation (one that aborts, or an extend that returns false)
\* leaves all contract state as it was before the call, also when place_bid
\* had written phase Running before the variant rejected the bid.
C9_FailureLeavesStateUnchanged ==
    [][(~last'.ok \/ last'.ret = Some(FALSE))
          => (/\ admin' = admin /\ auctions' = auctions /\ phase' = phase
              /\ transfers' = transfers /\ r_admin' = r_admin)]_vars

\* An authenticated place_bid on a sealed-bid auction past its sealed deadline
\* was rejected by the variant, and the phase record is still Sealed.
C9_Witness ==
    /\ last.op = "place_bid" /\ last.authed /\ ~last.ok
    /\ IsSome(auctions[last.id])
    /\ StoredAuction(last.id).settings.sealed_phase_time > 0
    /\ SealedDeadlinePassed(last.id)
    /\ phase[last.id] = "Sealed"

\* C10: without an admin record start aborts before the seller's
\* authorization is requested and writes nothing; with an admin record and
\* the seller's signature it returns the identifier under which the new
\* record is stored.
C10_StartRequiresAdmin ==
    \A x \in AllSettings, i \in Ids, signer \in Signers :
        LET o == start(Storage, x, i, signer, now)
        IN  /\ ~IsSome(admin) => (~o.ok /\ ~o.asked /\ o.st = Storage)
            /\ (IsSome(admin) /\ signer = x.seller)
                   => (/\ o.ok /\ o.ret = Some(i)
                       /\ o.st.auctions[i]
                              = Some(AuctionData(x, now, << >>, << >>, i)))

\* A start was attempted before any initialize and aborted; nothing is stored.
C10_Witness ==
    /\ last.op = "start" /\ ~last.ok /\ last.authed
    /\ ~IsSome(admin)
    /\ \A i \in Ids : ~IsSome(auctions[i]) /\ phase[i] = "None"

\* A successful start that stores its record under identifier i: the auction
\* stored under i before the step, if any, is replaced by a new one.
Restarted(i) == last'.op = "start" /\ last'.ok /\ last'.id = i

\* C11: the identifier assigned by start never collides with a live auction:
\* a successful start returns an id under which no auction record was stored.
C11_StartIdIsFresh ==
    [][(last'.op = "start" /\ last'.ok) => ~IsSome(auctions[last'.id])]_vars

\* Two settings records that agree on every field except possibly duration.
SameButDuration(s1, s2) == [s1 EXCEPT !.duration = 0] = [s2 EXCEPT !.duration = 0]

\* C12: from its start on, no operation changes a field of an auction's
\* settings other than duration, duration is changed only by extend on that
\* auction, and the variant predicate (discount_percent > 0 and
\* discount_frequency > 0) keeps its value, so every entry point dispatches
\* the auction to the same variant.  A start that stores a new auction under
\* the identifier (C11) begins another auction's life.
C12_SettingsFixedAfterStart ==
    [][\A i \in Ids :
          (IsSome(auctions[i]) /\ ~Restarted(i)) =>
              /\ IsSome(auctions'[i])
              /\ SameButDuration(StoredAuction(i).settings,
                                 Unwrap(auctions'[i]).settings)
              /\ (Unwrap(auctions'[i]).settings.duration
                      # StoredAuction(i).settings.duration
                     => (last'.op = "extend" /\ last'.id = i))
              /\ IsDiscount(Unwrap(auctions'[i]).settings)
                     = IsDiscount(StoredAuction(i).settings)]_vars

\* An extend has lengthened an auction that already holds a bid.
C12_Witness ==
    /\ last.op = "extend" /\ last.ret = Some(TRUE)
    /\ IsSome(auctions[last.id])
    /\ StoredAuction(last.id).settings.duration = MaxDuration
    /\ StoredAuction(last.id).bids # << >>

\* C13: the Sealed -> Running transition is monotonic.  Once the phase record
\* of an auction is Running no operation on that auction makes it Sealed
\* again, and once the sealed phase is seen as expired by place_bid
\* (start_time + sealed_phase_time <= now) every later place_bid on the same
\* auction sees it as expired too: the ledger time does not decrease and no
\* operation changes start_time or sealed_phase_time.
C13_SealedToRunningMonotonic ==
    [][\A i \in Ids :
          (IsSome(auctions[i]) /\ ~Restarted(i)) =>
              /\ now' >= now
              /\ Unwrap(auctions'[i]).start_time = StoredAuction(i).start_time
              /\ (phase[i] = "Running" => phase'[i] # "Sealed")
              /\ (has_sealed_phase_expired(now, StoredAuction(i))
                     => has_sealed_phase_expired(now', Unwrap(auctions'[i])))]_vars

\* A sealed-bid auction was advanced to Running by one place_bid and then
\* extended by its seller, after the sealed deadline.
C13_Witness ==
    /\ last.op = "extend" /\ last.ret = Some(TRUE)
    /\ IsSome(auctions[last.id])
    /\ VariantIsSealedBidAuction(StoredAuction(last.id))
    /\ SealedDeadlinePassed(last.id)
    /\ phase[last.id] = "Running"

\* C14: in an Ascending auction the highest stored bid never decreases: every
\* bid appended is a successful place_bid whose amount is strictly above the
\* highest bid before it (above starting_price when there was none), and a
\* place_bid with an amount at or below that mark fails, whoever sends it and
\* with whatever salt, and leaves the storage as it was.
C14_AscendingBidsIncrease ==
    /\ [](\A i \in Ids : \A b \in Buyers : \A m \in 0..MaxAmount :
            \A s \in SaltArgs : \A g \in Signers :
              (/\ IsSome(auctions[i])
               /\ ~IsDiscount(StoredAuction(i).settings)
               /\ m <= HighestBid(StoredAuction(i)))
              => LET o == place_bid(Storage, i, b, m, s, g, now)
                 IN  ~o.ok /\ o.st = Storage)
    /\ [][\A i \in Ids :
            (/\ IsSome(auctions[i]) /\ ~Restarted(i)
             /\ ~IsDiscount(StoredAuction(i).settings))
            => LET old == StoredAuction(i).bids
                   new == Unwrap(auctions'[i]).bids
               IN  /\ HighestBid(Unwrap(auctions'[i])) >= HighestBid(StoredAuction(i))
                   /\ (new # old =>
                         /\ last'.op = "place_bid" /\ last'.ok /\ last'.id = i
                         /\ Len(new) = Len(old) + 1
                         /\ SubSeq(new, 1, Len(old)) = old
                         /\ new[Len(new)].amount > HighestBid(StoredAuction(i)))]_vars

\* An authenticated place_bid on a running Ascending auction without sealed
\* phase, which already holds a bid, was rejected by the price rule.
C14_Witness ==
    /\ last.op = "place_bid" /\ ~last.ok /\ last.authed
    /\ IsSome(auctions[last.id])
    /\ ~IsDiscount(StoredAuction(last.id).settings)
    /\ ~VariantIsSealedBidAuction(StoredAuction(last.id))
    /\ EffectivePhase(Storage, last.id) = "Running"
    /\ StoredAuction(last.id).bids # << >>

\* C15: in a Discount auction the first place_bid at or above the current
\* price ends the auction in its own transaction, and every later place_bid
\* on that auction fails: a Discount auction that holds a bid accepts no
\* further place_bid.
C15_DiscountFirstBidEnds ==
    [][\A i \in Ids :
          (/\ IsSome(auctions[i])
           /\ IsDiscount(StoredAuction(i).settings)
           /\ StoredAuction(i).bids # << >>
           /\ last'.op = "place_bid" /\ last'.id = i)
          => ~last'.ok]_vars

\* C15 (first half): the place_bid that stores the first bid of a Discount
\* auction leaves the phase record Ended.
C15_AcceptedBidEnds ==
    [][\A i \in Ids :
          (/\ IsSome(auctions[i])
           /\ IsDiscount(StoredAuction(i).settings)
           /\ StoredAuction(i).bids = << >>
           /\ last'.op = "place_bid" /\ last'.id = i /\ last'.ok)
          => phase'[i] = "Ended"]_vars

\* The price rule of the auction's variant for a bid of amount m at time t.
MeetsPriceRule(a, m, t) ==
    IF IsDiscount(a.settings) THEN m >= DiscountPrice(a, t)
    ELSE m > HighestBid(a)

C17_NoBidNoSale ==
    [][\A i \in Ids :
          (/\ IsSome(auctions[i])
           /\ StoredAuction(i).bids = << >>
           /\ last'.op = "resolve" /\ last'.id = i)
          => /\ transfers'[i] = transfers[i]
             /\ auctions'[i] = auctions[i]
             /\ phase'[i] = "Ended"]_vars

\* A resolve succeeded on an auction without bids: Ended, nothing transferred.
C17_Witness ==
    /\ last.op = "resolve" /\ last.ok
    /\ IsSome(auctions[last.id])
    /\ StoredAuction(last.id).bids = << >>
    /\ phase[last.id] = "Ended"
    /\ transfers[last.id] = 0

\* C18: the stored admin configuration is always within bounds,
\* 0 <= commission_rate <= 100 and anti_snipe_time <= 60, whatever was passed
\* to initialize: an out-of-range argument is clamped, not rejected, and
\* admin and extendable_auctions are stored as given.
C18_AdminConfigWithinBounds ==
    /\ IsSome(admin) =>
           /\ Unwrap(admin).commission_rate >= 0
           /\ Unwrap(admin).commission_rate <= 100
           /\ Unwrap(admin).anti_snipe_time <= 60
    /\ ~IsSome(admin) =>
           \A a \in Admins : \A x \in InitArgs :
               LET o == initialize(Storage, a, x[1], x[2], x[3])
                   d == Unwrap(o.st.admin)
               IN  /\ o.ok /\ IsSome(o.st.admin)
                   /\ d.admin = a /\ d.extendable_auctions = x[3]
                   /\ d.anti_snipe_time = (IF x[1] > 60 THEN 60 ELSE x[1])
                   /\ d.commission_rate =
                          (IF x[2] < 0 THEN 0 ELSE IF x[2] > 100 THEN 100 ELSE x[2])

\* initialize was called with anti_snipe_time and commission_rate above their
\* caps and stored the caps.
C18_Witness ==
    /\ last.op = "initialize" /\ last.ok
    /\ IsSome(admin)
    /\ Unwrap(admin).anti_snipe_time = 60
    /\ Unwrap(admin).commission_rate = 100
    /\ ~Unwrap(admin).extendable_auctions

\* ----------------------------------------------------- royalty contract
Whitelisted(b) == whitelist[b] = Some(TRUE)
BrokerEvents == {"on_request", "on_sync_receive", "on_async_receive"}

\* C19: the royalty contract admits a request and writes market data only
\* for a broker that is whitelisted, that is, whose most recent successful
\* whitelist operation was allow_broker: an event naming any other broker
\* aborts and leaves the storage, market data included, as it was.  The
\* whitelist changes only by an allow_broker (entry set) or deny_broker
\* (entry removed) that carries the admin's signature, and only for the
\* broker named.
C19_WhitelistGatesBrokers ==
    /\ [](\A b \in Brokers :
            ~Whitelisted(b) =>
                /\ \A sub \in Subscribers : \A g \in RSigners :
                       LET o == on_request(RStorage, b, sub, g)
                       IN  ~o.ok /\ o.st = RStorage
                /\ \A t \in Topics : \A d \in MarketArgs :
                       LET o == on_sync_receive(RStorage, t, b, d)
                       IN  ~o.ok /\ o.st = RStorage
                /\ \A t \in Topics : \A d \in MarketArgs : \A g \in RSigners :
                       LET o == on_async_receive(RStorage, t, b, d, g)
                       IN  ~o.ok /\ o.st = RStorage)
    /\ [][/\ (r_last'.op \in BrokerEvents /\ r_last'.ok)
                => Whitelisted(r_last'.broker)
          /\ (market' # market)
                => /\ r_last'.op \in {"on_sync_receive", "on_async_receive"}
                   /\ r_last'.ok /\ Whitelisted(r_last'.broker)
          /\ (r_last'.op = "allow_broker" /\ r_last'.ok)
                => (r_last'.authed /\ whitelist'[r_last'.broker] = Some(TRUE))
          /\ (r_last'.op = "deny_broker" /\ r_last'.ok)
                => (r_last'.authed /\ whitelist'[r_last'.broker] = None)
          /\ \A b \in Brokers :
                (whitelist'[b] # whitelist[b])
                    => /\ r_last'.op \in {"allow_broker", "deny_broker"}
                       /\ r_last'.ok /\ r_last'.authed /\ r_last'.broker = b
         ]_vars

\* With one broker whitelisted and market data stored, a delivery naming a
\* broker that is not whitelisted aborted.
C19_Witness ==
    /\ r_last.op = "on_sync_receive" /\ ~r_last.ok
    /\ ~Whitelisted(r_last.broker)
    /\ \E b \in Brokers : Whitelisted(b)
    /\ \E t \in Topics : IsSome(market[t])

====
